---- MODULE Spec2Model ----
(***************************************************************************)
(* Model of specdal/collection.py: the Collection container (an            *)
(* OrderedDict from spectrum name to Spectrum object), its key functions,  *)
(* groupby, the joined data view and the aggregates.                       *)
(*                                                                         *)
(* Strings are sequences of one-character strings, so that str.split and   *)
(* str.join are computed and not assumed.  Spectrum objects live in a heap *)
(* of object identities, so that aliasing and deep copies are distinct.    *)
(***************************************************************************)
EXTENDS Integers, Sequences, FiniteSets, TLC

VARIABLES
  heap,     \* the Spectrum objects, by identity
  source,   \* the collection: its name and its OrderedDict _spectra
  result,   \* what the last groupby call returned: OrderedDict key -> Collection
  last,     \* the last call: operation, target, arguments, outcome
  edits     \* changes made to the returned groups since groupby returned them

vars == <<heap, source, result, last, edits>>

----------------------------------------------------------------------------
(* Bounds of the model *)

\* largest number of entries of the collection in the container
\* specification (the grouping specification is bounded by Names alone)
MaxSpectra == 2

\* largest number of changes made to the groups one groupby call returned
MaxEdits == 1

----------------------------------------------------------------------------
(* Strings *)

\* code point of a character, the order Python compares strings by
Ord(c) ==
  CASE c = "-" -> 45 [] c = "." -> 46 [] c = "1" -> 49 [] c = "2" -> 50
    [] c = "A" -> 65 [] c = "B" -> 66 [] c = "_" -> 95 [] c = "a" -> 97
    [] c = "c" -> 99 [] c = "d" -> 100 [] c = "e" -> 101 [] c = "i" -> 105
    [] c = "m" -> 109 [] c = "n" -> 110 [] c = "s" -> 115 [] c = "t" -> 116
    [] c = "x" -> 120

\* str.__lt__: lexicographic order on code points
RECURSIVE StrLess(_, _)
StrLess(a, b) ==
  IF b = <<>> THEN FALSE
  ELSE IF a = <<>> THEN TRUE
  ELSE IF Ord(Head(a)) # Ord(Head(b)) THEN Ord(Head(a)) < Ord(Head(b))
  ELSE StrLess(Tail(a), Tail(b))

\* true iff sep occurs in s at position i
OccursAt(s, sep, i) ==
  /\ i + Len(sep) - 1 <= Len(s)
  /\ SubSeq(s, i, i + Len(sep) - 1) = sep

\* str.split(sep) for a non-empty separator: always at least one token
RECURSIVE split(_, _)
split(s, sep) ==
  IF \A i \in 1..Len(s) : ~OccursAt(s, sep, i) THEN <<s>>
  ELSE LET k == CHOOSE i \in 1..Len(s) :
                   /\ OccursAt(s, sep, i)
                   /\ \A j \in 1..(i - 1) : ~OccursAt(s, sep, j)
       IN  <<SubSeq(s, 1, k - 1)>> \o split(SubSeq(s, k + Len(sep), Len(s)), sep)

\* sep.join(tokens)
RECURSIVE join(_, _)
join(sep, tokens) ==
  IF tokens = <<>> THEN <<>>
  ELSE IF Len(tokens) = 1 THEN tokens[1]
  ELSE tokens[1] \o sep \o join(sep, Tail(tokens))

\* list[i] of Python: positions are 0-based, a negative i counts from the end
InRange(elements, i) == -Len(elements) <= i /\ i < Len(elements)
PyItem(elements, i) ==
  IF i >= 0 THEN elements[i + 1] ELSE elements[Len(elements) + i + 1]

\* the elements of a sequence
Range(s) == {s[i] : i \in 1..Len(s)}

----------------------------------------------------------------------------
(* Key functions for forming groups.  A key function returns the key, or   *)
(* the exception it raises.                                                *)

Raised(e) == [err |-> e, key |-> <<>>]
Returned(k) == [err |-> "none", key |-> k]

\* separator.join([elements[i] for i in indices])
separator_keyfun(name, separator, indices) ==
  LET elements == split(name, separator)
  IN  IF \E k \in 1..Len(indices) : ~InRange(elements, indices[k])
      THEN Raised("IndexError")
      ELSE Returned(join(separator,
                         [k \in 1..Len(indices) |-> PyItem(elements, indices[k])]))

\* separator.join([elements[i] if i in indices else fill
\*                 for i in range(len(elements))])
\* The name fill is bound nowhere (the parameter is filler): evaluating the
\* else branch raises NameError.
separator_with_filler_keyfun(name, separator, indices, filler) ==
  LET elements == split(name, separator)
  IN  IF \E i \in 0..(Len(elements) - 1) : i \notin Range(indices)
      THEN Raised("NameError")
      ELSE Returned(join(separator,
                         [k \in 1..Len(elements) |-> elements[k]]))

----------------------------------------------------------------------------
(* Input domains *)

None == <<"None">>

CollectionName == <<"c">>

\* names of the spectra given to append
Names == { <<"A", "_", "1">>, <<"A", "_", "2">>, <<"B">> }

Unique == <<400, 401>>
Overlap == <<400, 401, 401>>

\* A measurement is a series over axis positions.  Its values are named by
\* a tag: no operation of Collection reads them.
Measurement(index, data) == [index |-> index, data |-> data]

Spectrum(name, measurement, stitched) ==
  [name |-> name, measurement |-> measurement, stitched |-> stitched]

\* spectra as the readers produce them
RawSpectra == {Spectrum(n, Measurement(Unique, "raw"), FALSE) : n \in Names}

\* spectra with and without overlapping positions, stitched or not
InputSpectra ==
  {Spectrum(n, Measurement(ix, "raw"), st) :
     n \in Names, ix \in {Unique, Overlap}, st \in BOOLEAN}

Separators == { <<"_">>, <<"-">> }
IndexLists == { <<>>, <<0>>, <<1>>, <<0, 1>>, <<1, 0>>, <<-1>> }
Fillers == { None, <<".">> }
Reducers == { <<"m", "e", "a", "n">>, <<"m", "e", "d", "i", "a", "n">>,
              <<"m", "i", "n">>, <<"m", "a", "x">>, <<"s", "t", "d">> }

----------------------------------------------------------------------------
(* An OrderedDict: a sequence of entries [key, value] in insertion order,   *)
(* keys unique.  In _spectra the value is the identity of the Spectrum     *)
(* object held; the objects themselves are in heap.                        *)

Keys(od) == {od[i].key : i \in 1..Len(od)}
Refs(od) == {od[i].value : i \in 1..Len(od)}
Position(od, key) == CHOOSE i \in 1..Len(od) : od[i].key = key

\* the mutant of OdSet: a new key goes first
OdSet_front(od, key, value) ==
  IF key \in Keys(od)
  THEN [od EXCEPT ![Position(od, key)] = [key |-> key, value |-> value]]
  ELSE <<[key |-> key, value |-> value]>> \o od

\* OrderedDict.__setitem__: a new key goes last, a held key keeps its place
OdSet(od, key, value) ==
  IF key \in Keys(od)
  THEN [od EXCEPT ![Position(od, key)] = [key |-> key, value |-> value]]
  ELSE Append(od, [key |-> key, value |-> value])

\* OrderedDict.__delitem__ of a held key
OdDel(od, key) ==
  LET p == Position(od, key)
  IN  SubSeq(od, 1, p - 1) \o SubSeq(od, p + 1, Len(od))

\* OrderedDict.__getitem__ of a held key
OdGet(od, key) == od[Position(od, key)].value

\* list(self._spectra.values())
spectra(c) == [i \in 1..Len(c._spectra) |-> c._spectra[i].value]

\* the collection an operation is called on: 0 is the source collection,
\* t >= 1 the t-th collection of the last groupby result
Targets == 0..Len(result)
Groups == 1..Len(result)
Coll(t) == IF t = 0 THEN source ELSE result[t].value

\* The identity of an object: the collection it was created for and its
\* name.  Names are unique in a collection, so no two live objects share it.
NewObject(t, name) == <<t, name>>

AllRefs(src, res) ==
  Refs(src._spectra) \cup UNION {Refs(res[j].value._spectra) : j \in 1..Len(res)}

\* objects no collection references are gone
Collect(h, src, res) == [r \in (DOMAIN h) \cap AllRefs(src, res) |-> h[r]]

Call(op, on, args, err, warn, ret) ==
  [op |-> op, on |-> on, args |-> args, err |-> err, warn |-> warn, ret |-> ret]

WithColl(t, c) ==
  /\ source' = (IF t = 0 THEN c ELSE source)
  /\ result' = (IF t = 0 THEN result ELSE [result EXCEPT ![t].value = c])

----------------------------------------------------------------------------
(* Construction *)

Init ==
  /\ heap = <<>>
  /\ source = [name |-> CollectionName, _spectra |-> <<>>]
  /\ result = <<>>
  /\ last = Call("init", 0, <<>>, "none", FALSE, <<>>)
  /\ edits = 0

----------------------------------------------------------------------------
(* Container operations *)

\* the mutant of AppendResult: the name is not asserted to be new
AppendResult_unchecked(c, name, ref) ==
  [err |-> "none", coll |-> [c EXCEPT !._spectra = OdSet(@, name, ref)]]

\* Collection.append: both assertions, then OrderedDict.__setitem__
AppendResult(c, name, ref) ==
  IF name \in Keys(c._spectra)
  THEN [err |-> "AssertionError", coll |-> c]
  ELSE [err |-> "none", coll |-> [c EXCEPT !._spectra = OdSet(@, name, ref)]]

append(t, spectrum) ==
  LET ref == NewObject(t, spectrum.name)
      r == AppendResult(Coll(t), spectrum.name, ref)
  IN  /\ WithColl(t, r.coll)
      /\ heap' = (IF r.err = "none"
                  THEN Collect([x \in DOMAIN heap \cup {ref} |->
                                  IF x = ref THEN spectrum ELSE heap[x]],
                               source', result')
                  ELSE heap)
      /\ last' = Call("append", t, <<spectrum.name>>, r.err, FALSE, <<>>)

\* Collection.__getitem__
getitem(t, key) ==
  /\ last' = (IF key \in Keys(Coll(t)._spectra)
              THEN Call("getitem", t, <<key>>, "none", FALSE,
                        OdGet(Coll(t)._spectra, key))
              ELSE Call("getitem", t, <<key>>, "KeyError", FALSE, <<>>))
  /\ UNCHANGED <<heap, source, result>>

\* the mutant of DelResult: an absent key is passed over in silence
DelResult_silent(c, key) ==
  IF key \in Keys(c._spectra)
  THEN [err |-> "none", coll |-> [c EXCEPT !._spectra = OdDel(@, key)]]
  ELSE [err |-> "none", coll |-> c]

\* Collection.__delitem__
DelResult(c, key) ==
  IF key \in Keys(c._spectra)
  THEN [err |-> "none", coll |-> [c EXCEPT !._spectra = OdDel(@, key)]]
  ELSE [err |-> "KeyError", coll |-> c]

delitem(t, key) ==
  LET r == DelResult(Coll(t), key)
  IN  /\ WithColl(t, r.coll)
      /\ heap' = Collect(heap, source', result')
      /\ last' = Call("delitem", t, <<key>>, r.err, FALSE, <<>>)

\* Collection.__len__
len(t) ==
  /\ last' = Call("len", t, <<>>, "none", FALSE, Len(Coll(t)._spectra))
  /\ UNCHANGED <<heap, source, result>>

\* Collection.__contains__: the membership test is computed and dropped,
\* the method returns None
ContainsReturn(c, item) == "None"

\* the in operator: the truth value of what __contains__ returns
Truth(v) == v = "True"

contains(t, item) ==
  /\ last' = Call("contains", t, <<item>>, "none", FALSE,
                  Truth(ContainsReturn(Coll(t), item)))
  /\ UNCHANGED <<heap, source, result>>

\* the spectra property
list(t) ==
  /\ last' = Call("list", t, <<>>, "none", FALSE, spectra(Coll(t)))
  /\ UNCHANGED <<heap, source, result>>

----------------------------------------------------------------------------
(* The joined data view *)

HasDuplicate(index) ==
  \E i, j \in 1..Len(index) : i # j /\ index[i] = index[j]

\* the positions of a set in increasing order
RECURSIVE SortedSeq(_)
SortedSeq(S) ==
  IF S = {} THEN <<>>
  ELSE LET m == CHOOSE x \in S : \A y \in S : x <= y
       IN  <<m>> \o SortedSeq(S \ {m})

\* pd.concat(objs=[s.measurement ...], axis=1, keys=[s.name ...]): ValueError
\* when there is nothing to concatenate or a series cannot be aligned
\* because its index holds a position twice
concat(h, members) ==
  IF members = <<>> \/ \E i \in 1..Len(members) :
                          HasDuplicate(h[members[i]].measurement.index)
  THEN [err |-> "ValueError", columns |-> <<>>, index |-> <<>>]
  ELSE [err |-> "none",
        columns |-> [i \in 1..Len(members) |-> h[members[i]].name],
        index |-> SortedSeq(UNION {Range(h[members[i]].measurement.index) :
                                     i \in 1..Len(members)})]

\* the mutant of NeedsStitchingWarning: any for all
NeedsStitchingWarning_any(h, members) ==
  ~(\E i \in 1..Len(members) : h[members[i]].stitched)

\* if not all([s.stitched for s in self.spectra]): warnings.warn(...)
NeedsStitchingWarning(h, members) ==
  ~(\A i \in 1..Len(members) : h[members[i]].stitched)

\* the data property: the frame, or the ValueError re-raised, after the
\* warning when some member is not stitched
data(h, c) ==
  LET members == spectra(c)
      frame == concat(h, members)
  IN  [err |-> frame.err, columns |-> frame.columns, index |-> frame.index,
       warn |-> frame.err # "none" /\ NeedsStitchingWarning(h, members)]

readdata(t) ==
  /\ LET d == data(heap, Coll(t))
     IN  last' = Call("data", t, <<>>, d.err, d.warn, <<d.columns, d.index>>)
  /\ UNCHANGED <<heap, source, result>>

----------------------------------------------------------------------------
(* Bulk spectral transforms.  The Spectrum methods are not part of          *)
(* collection.py: each changes the one spectrum it is called on.           *)

RECURSIVE Dedup(_)
Dedup(index) ==
  IF index = <<>> THEN <<>>
  ELSE LET rest == Dedup(SubSeq(index, 1, Len(index) - 1))
           x == index[Len(index)]
       IN  IF x \in Range(rest) THEN rest ELSE Append(rest, x)

Spectrum_resample(s) == [s EXCEPT !.measurement.data = "resampled"]
Spectrum_stitch(s) ==
  [s EXCEPT !.measurement.index = Dedup(@), !.stitched = TRUE]
Spectrum_jump_correct(s) == [s EXCEPT !.measurement.data = "jump_corrected"]

Transform(op, s) ==
  CASE op = "resample" -> Spectrum_resample(s)
    [] op = "stitch" -> Spectrum_stitch(s)
    [] op = "jump_correct" -> Spectrum_jump_correct(s)

\* for spectrum in self.spectra: spectrum.<op>(...).  The first n calls
\* return; when n is less than the length, call n + 1 raises and the loop
\* ends there.
fanout(t, op, n) ==
  /\ n \in 0..Len(Coll(t)._spectra)
  /\ LET members == spectra(Coll(t))
         done == {members[i] : i \in 1..n}
     IN  heap' = [r \in DOMAIN heap |->
                    IF r \in done THEN Transform(op, heap[r]) ELSE heap[r]]
  /\ last' = Call(op, t, <<>>,
                  IF n < Len(Coll(t)._spectra) THEN "SpectrumError" ELSE "none",
                  FALSE, <<>>)
  /\ UNCHANGED <<source, result>>

\* collection[key].measurement = m: a caller changes a member it looked up
setmeasurement(t, key, m) ==
  /\ key \in Keys(Coll(t)._spectra)
  /\ heap' = [heap EXCEPT ![OdGet(Coll(t)._spectra, key)].measurement = m]
  /\ last' = Call("setmeasurement", t, <<key>>, "none", FALSE, <<>>)
  /\ UNCHANGED <<source, result>>

----------------------------------------------------------------------------
(* Group operations *)

\* key_fun(x, *args)
KeyOf(name, separator, indices, filler) ==
  IF filler = None
  THEN separator_keyfun(name, separator, indices)
  ELSE separator_with_filler_keyfun(name, separator, indices, filler)

\* sorted(xs, key=...): stable, by str.__lt__ on the keys
RECURSIVE InsertByKey(_, _)
InsertByKey(x, s) ==
  IF s = <<>> THEN <<x>>
  ELSE IF StrLess(x.key, Head(s).key) THEN <<x>> \o s
  ELSE <<Head(s)>> \o InsertByKey(x, Tail(s))

RECURSIVE sorted(_)
sorted(xs) ==
  IF xs = <<>> THEN <<>>
  ELSE InsertByKey(xs[Len(xs)], sorted(SubSeq(xs, 1, Len(xs) - 1)))

\* itertools.groupby: the maximal runs of consecutive equal keys, each as
\* the positions from..to it covers
RECURSIVE RunsFrom(_, _)
RunsFrom(xs, p) ==
  IF p > Len(xs) THEN <<>>
  ELSE LET q == CHOOSE e \in p..Len(xs) :
                   /\ \A i \in p..e : xs[i].key = xs[p].key
                   /\ e = Len(xs) \/ xs[e + 1].key # xs[p].key
       IN  <<[key |-> xs[p].key, from |-> p, to |-> q]>> \o RunsFrom(xs, q + 1)

\* the mutant of deepcopy: the spectrum itself, not a copy
deepcopy_alias(ref, fresh) == ref

\* copy.deepcopy(s): a new object, fresh, holding what s holds
deepcopy(ref, fresh) == fresh

\* the spectra setter: an empty OrderedDict, then each spectrum under its
\* name, asserting that the name is new
RECURSIVE SetSpectra(_, _)
SetSpectra(h, refs) ==
  IF refs = <<>> THEN [err |-> "none", od |-> <<>>]
  ELSE LET before == SetSpectra(h, SubSeq(refs, 1, Len(refs) - 1))
           s == refs[Len(refs)]
       IN  IF before.err # "none" \/ h[s].name \in Keys(before.od)
           THEN [err |-> "AssertionError", od |-> before.od]
           ELSE [err |-> "none", od |-> OdSet(before.od, h[s].name, s)]

\* result[coll.name] = coll for each run, in order
RECURSIVE BuildResult(_, _, _)
BuildResult(h, runs, copies) ==
  IF runs = <<>> THEN [err |-> "none", od |-> <<>>]
  ELSE LET before == BuildResult(h, SubSeq(runs, 1, Len(runs) - 1), copies)
           g == runs[Len(runs)]
           set == SetSpectra(h, SubSeq(copies, g.from, g.to))
       IN  IF before.err # "none" \/ set.err # "none"
           THEN [err |-> "AssertionError", od |-> before.od]
           ELSE [err |-> "none",
                 od |-> OdSet(before.od, g.key,
                              [name |-> g.key, _spectra |-> set.od])]

GroupbyResult(h, c, separator, indices, filler) ==
  LET members == spectra(c)
      keys == [i \in 1..Len(members) |->
                 KeyOf(h[members[i]].name, separator, indices, filler)]
      failed == {i \in 1..Len(members) : keys[i].err # "none"}
  IN  IF failed # {}
      THEN [err |-> keys[CHOOSE i \in failed : \A j \in failed : i <= j].err,
            od |-> <<>>, heap |-> h]
      ELSE LET spectra_sorted ==
                 sorted([i \in 1..Len(members) |->
                           [key |-> keys[i].key, value |-> members[i]]])
               runs == RunsFrom(spectra_sorted, 1)
               run(p) == CHOOSE g \in 1..Len(runs) :
                           runs[g].from <= p /\ p <= runs[g].to
               fresh == [p \in 1..Len(members) |->
                           NewObject(run(p), h[spectra_sorted[p].value].name)]
               copies == [p \in 1..Len(members) |->
                            deepcopy(spectra_sorted[p].value, fresh[p])]
               h2 == [r \in DOMAIN h \cup Range(fresh) |->
                        IF r \in Range(fresh)
                        THEN h[spectra_sorted[CHOOSE p \in 1..Len(members) :
                                                fresh[p] = r].value]
                        ELSE h[r]]
               built == BuildResult(h2, runs, copies)
           IN  [err |-> built.err, od |-> built.od, heap |-> h2]

\* Collection.groupby, called on the source collection; the result of an
\* earlier call is dropped
groupby(separator, indices, filler) ==
  LET kept == Collect(heap, source, <<>>)
      g == GroupbyResult(kept, source, separator, indices, filler)
  IN  /\ source' = source
      /\ result' = g.od
      /\ heap' = Collect(g.heap, source', result')
      /\ last' = Call("groupby", 0, <<separator, indices, filler>>, g.err,
                      FALSE, <<>>)

----------------------------------------------------------------------------
(* Aggregates: mean, median, min, max and std differ in the reducer only *)

\* the mutant of AggregateName: the reducer is left out of the name
AggregateName_bare(c, reducer) == c.name \o <<"_">>

\* name=self.name + '_mean', '_median', '_min', '_max', '_std'
AggregateName(c, reducer) == c.name \o <<"_">> \o reducer

aggregate(t, reducer, app, stitched) ==
  LET c == Coll(t)
      d == data(heap, c)
      spectrum == Spectrum(AggregateName(c, reducer),
                           Measurement(d.index, "aggregate"), stitched)
  IN  IF d.err # "none"
      THEN /\ last' = Call("aggregate", t, <<reducer, app>>, d.err, d.warn, <<>>)
           /\ UNCHANGED <<heap, source, result>>
      ELSE IF ~app
      THEN /\ last' = Call("aggregate", t, <<reducer, app>>, "none", FALSE,
                           spectrum.name)
           /\ UNCHANGED <<heap, source, result>>
      ELSE LET ref == NewObject(t, spectrum.name)
               r == AppendResult(c, spectrum.name, ref)
           IN  /\ WithColl(t, r.coll)
               /\ heap' = (IF r.err = "none"
                           THEN Collect([x \in DOMAIN heap \cup {ref} |->
                                           IF x = ref THEN spectrum ELSE heap[x]],
                                        source', result')
                           ELSE heap)
               /\ last' = Call("aggregate", t, <<reducer, app>>, r.err,
                               FALSE, spectrum.name)

----------------------------------------------------------------------------
(* Specifications *)

\* room for one more entry in the collection
Room(t) == Len(Coll(t)._spectra) < MaxSpectra

\* The container: one collection, every operation of it but groupby
NextContainer ==
  \/ \E s \in InputSpectra :
        /\ Room(0) \/ s.name \in Keys(source._spectra)
        /\ append(0, s)
        /\ UNCHANGED edits
  \/ \E k \in Names : getitem(0, k) /\ UNCHANGED edits
  \/ \E k \in Names : delitem(0, k) /\ UNCHANGED edits
  \/ len(0) /\ UNCHANGED edits
  \/ \E k \in Names : contains(0, k) /\ UNCHANGED edits
  \/ list(0) /\ UNCHANGED edits
  \/ readdata(0) /\ UNCHANGED edits
  \/ \E n \in 0..Len(source._spectra) : fanout(0, "stitch", n) /\ UNCHANGED edits
  \/ \E r \in Reducers, app \in BOOLEAN, st \in BOOLEAN :
        /\ app => Room(0) \/ AggregateName(source, r) \in Keys(source._spectra)
        /\ aggregate(0, r, app, st)
        /\ UNCHANGED edits

SpecContainer == Init /\ [][NextContainer]_vars

\* one more change to the groups returned
Edit == edits < MaxEdits /\ edits' = edits + 1

\* Grouping: the source collection is filled and then grouped, and the
\* groups returned are changed.  The source collection is appended to and
\* deleted from only while no groups are held; a later groupby call
\* replaces the groups.
NextGroup ==
  \/ \E s \in RawSpectra : result = <<>> /\ append(0, s) /\ UNCHANGED edits
  \/ \E k \in Names : result = <<>> /\ delitem(0, k) /\ UNCHANGED edits
  \/ \E sep \in Separators, ix \in IndexLists, f \in Fillers :
        groupby(sep, ix, f) /\ edits' = 0
  \/ \E t \in Groups, s \in RawSpectra : Edit /\ append(t, s)
  \/ \E t \in Groups, k \in Names : Edit /\ delitem(t, k)
  \/ \E t \in Groups, op \in {"resample", "stitch", "jump_correct"} :
        \E n \in 0..Len(Coll(t)._spectra) : Edit /\ fanout(t, op, n)
  \/ \E t \in Groups, k \in Names :
        Edit /\ setmeasurement(t, k, Measurement(Overlap, "raw"))

SpecGroup == Init /\ [][NextGroup]_vars

----------------------------------------------------------------------------
(* Properties of the container (SpecContainer) *)

held == Keys(source._spectra)
length == Len(source._spectra)

\* the entries of an OrderedDict without the one of key
Without(od, key) == SelectSeq(od, LAMBDA e : e.key # key)

NoSharedName(od) ==
  \A i, j \in 1..Len(od) : od[i].key = od[j].key => i = j

\* C1: an append of a spectrum whose name is held fails with the
\* duplicate-key error (the AssertionError of append) and leaves the
\* container as it was: same names, same order, each name bound to the
\* object it held, that object unchanged; and no two entries ever share a
\* name.
C1_DuplicateAppendFails ==
  [][/\ (last'.op = "append" /\ last'.args[1] \in held) =>
          /\ last'.err = "AssertionError"
          /\ source' = source
          /\ heap' = heap
     /\ NoSharedName(source'._spectra)]_vars

C1_Witness ==
  /\ last.op = "append"
  /\ last.err = "AssertionError"
  /\ last.args[1] \in held
  /\ length = MaxSpectra

C5_Original ==
  [][(last'.op = "aggregate" /\ last'.args[2]) =>
       LET name == source.name \o <<"_">> \o last'.args[1]
       IN  /\ name \notin held =>
                /\ last'.err = "none"
                /\ length' = length + 1
                /\ source'._spectra[length'].key = name
           /\ (last.op = "aggregate" /\ last.args = last'.args
                 /\ last.err = "none") =>
                /\ last'.err = "AssertionError"
                /\ length' = length]_vars

\* C5, amended: an aggregate call with append=True on a collection whose
\* joined data view can be built, and that does not hold the name yet,
\* adds one spectrum, named <collection.name>_<reducer>, at the end; the
\* same call repeated at once fails with the duplicate-key error and
\* leaves the collection as it was.
C5_AppendRoundTrip ==
  [][(last'.op = "aggregate" /\ last'.args[2]) =>
       LET name == source.name \o <<"_">> \o last'.args[1]
       IN  /\ (name \notin held /\ data(heap, source).err = "none") =>
                /\ last'.err = "none"
                /\ length' = length + 1
                /\ SubSeq(source'._spectra, 1, length) = source._spectra
                /\ source'._spectra[length'].key = name
                /\ heap'[source'._spectra[length'].value].name = name
           /\ (last.op = "aggregate" /\ last.args = last'.args
                 /\ last.err = "none") =>
                /\ last'.err = "AssertionError"
                /\ source' = source
                /\ heap' = heap]_vars

C5_Witness ==
  /\ last.op = "aggregate"
  /\ last.args[2]
  /\ last.err = "AssertionError"
  /\ length = MaxSpectra

Overlapping(ref) == HasDuplicate(heap[ref].measurement.index)

C8_Original ==
  last.op = "contains" => (last.ret <=> last.args[1] \in held)

\* C9 as stated: delete removes the entry of a held name and passes over
\* an absent name in silence, the collection unchanged; get of an absent
\* name fails with the key error.
C9_Original ==
  [][/\ last'.op = "delitem" =>
          /\ last'.err = "none"
          /\ source'._spectra = Without(source._spectra, last'.args[1])
     /\ (last'.op = "getitem" /\ last'.args[1] \notin held) =>
          last'.err = "KeyError"]_vars

\* C9, amended: delete removes the entry of a held name; delete of an
\* absent name fails with the key error and leaves the collection
\* unchanged, as get of an absent name does.
C9_DeleteAndGet ==
  [][/\ (last'.op = "delitem" /\ last'.args[1] \in held) =>
          /\ last'.err = "none"
          /\ source'._spectra = Without(source._spectra, last'.args[1])
          /\ last'.args[1] \notin Keys(source'._spectra)
     /\ (last'.op = "delitem" /\ last'.args[1] \notin held) =>
          /\ last'.err = "KeyError"
          /\ source' = source
          /\ heap' = heap
     /\ (last'.op = "getitem" /\ last'.args[1] \notin held) =>
          /\ last'.err = "KeyError"
          /\ source' = source
     /\ (last'.op = "getitem" /\ last'.args[1] \in held) =>
          /\ last'.err = "none"
          /\ last'.ret = OdGet(source._spectra, last'.args[1])]_vars

C9_Witness ==
  /\ last.op = "delitem"
  /\ last.err = "KeyError"
  /\ length >= 1

----------------------------------------------------------------------------
(* Properties of grouping (SpecGroup) *)

GroupKeys(j) == Keys(result[j].value._spectra)

\* every index is a token position of every held name
ValidIndices(separator, indices) ==
  \A n \in held, k \in 1..Len(indices) :
     0 <= indices[k] /\ indices[k] < Len(split(n, separator))

\* the groups partition the names of the source collection
Partition ==
  /\ \A n \in held : Cardinality({j \in Groups : n \in GroupKeys(j)}) = 1
  /\ \A j \in Groups : GroupKeys(j) \subseteq held

\* C3 as stated: groupby returns groups that partition the source
\* collection, for any separator, index list and filler setting (calls
\* with an index that is no token position of some name aside).
C3_Original ==
  (last.op = "groupby" /\ ValidIndices(last.args[1], last.args[2])) =>
     last.err = "none" /\ Partition

\* what a collection holds: its names in order, each with the state of
\* its object
ViewOf(h, c) ==
  [i \in 1..Len(c._spectra) |->
     [key |-> c._spectra[i].key, object |-> h[c._spectra[i].value]]]

GroupChanges ==
  {"append", "delitem", "resample", "stitch", "jump_correct", "setmeasurement"}

\* C4: a change applied to one returned group (a fan-out transform, an
\* append, a delete, a change of a member's measurement) leaves the names,
\* measurements and stitched flags of the source collection and of every
\* other group as they were.
C4_DeepCopyIsolation ==
  [][\A t \in Groups :
       (last'.op \in GroupChanges /\ last'.on = t) =>
          /\ ViewOf(heap', source') = ViewOf(heap, source)
          /\ Len(result') = Len(result)
          /\ \A j \in Groups \ {t} :
                ViewOf(heap', result'[j].value) = ViewOf(heap, result[j].value)]_vars

C4_Witness ==
  /\ last.op \in {"resample", "stitch", "jump_correct", "setmeasurement"}
  /\ last.on \in Groups
  /\ Len(result) >= 2
  /\ ViewOf(heap, result[last.on].value) # <<>>
  /\ \E n \in held :
        /\ n \in GroupKeys(last.on)
        /\ heap[OdGet(result[last.on].value._spectra, n)]
             # heap[OdGet(source._spectra, n)]

\* the key the filler mode is specified to give: every token position in
\* order, the positions not selected replaced by the filler
FillerKey(name, separator, indices, filler) ==
  LET elements == split(name, separator)
  IN  join(separator, [k \in 1..Len(elements) |->
                         IF (k - 1) \in Range(indices) THEN elements[k] ELSE filler])

GroupOf(n) == CHOOSE j \in Groups : n \in GroupKeys(j)

\* C7 as stated: with a filler, groupby keys each name by all its token
\* positions, the unselected ones replaced by the filler, so that names
\* of equal token count that agree at the selected positions share a
\* group.
C7_Original ==
  (last.op = "groupby" /\ last.args[3] # None
     /\ ValidIndices(last.args[1], last.args[2])) =>
     /\ last.err = "none"
     /\ \A n \in held :
           /\ \E j \in Groups : n \in GroupKeys(j)
           /\ result[GroupOf(n)].key
                = FillerKey(n, last.args[1], last.args[2], last.args[3])
     /\ \A a, b \in held :
           FillerKey(a, last.args[1], last.args[2], last.args[3])
             = FillerKey(b, last.args[1], last.args[2], last.args[3])
           => GroupOf(a) = GroupOf(b)

\* C10 as stated: a groupby call with an index that is no token position
\* of some held name fails and returns no grouping.
C10_Original ==
  (last.op = "groupby" /\ ~ValidIndices(last.args[1], last.args[2])) =>
     last.err # "none" /\ result = <<>>

====
